---- MODULE Spec2Model ----
(***************************************************************************)
(* Atlas-Web: the App component of src/src/App.tsx as a state machine.     *)
(*                                                                         *)
(* The state is the React state of App (the useState cells and the route   *)
(* store returned by useRoutes) and, as outputs, what one event handed to  *)
(* the outside world: the alert shown, the console line written and the    *)
(* fitBounds call made on the map widget.  One action is one DOM event:    *)
(* the handler runs against the values of the last render, React applies   *)
(* the queued state updates in order, re-renders, and then runs the        *)
(* MapUpdater effect when one of its dependencies changed.  React flushes  *)
(* discrete events (click, change) synchronously, so every handler sees    *)
(* the state the previous event left.                                      *)
(***************************************************************************)
EXTENDS Integers, FiniteSets, Sequences, TLC

VARIABLES
    selectedRoute,       \* App.tsx:43  name of the selected route, "" = none
    showAddRoute,        \* App.tsx:44  the add-route dialog is open
    isAnalyzing,         \* App.tsx:45  DrawingTools is mounted
    routes,              \* App.tsx:46  the route store: name -> Route
    flightParams,        \* App.tsx:49
    certSettings,        \* App.tsx:56
    trajectorySettings,  \* App.tsx:63
    alerted,             \* the last event called alert(...)           (App.tsx:104)
    logged,              \* the last event called console.log(...)     (App.tsx:113)
    fitBoundsCall,       \* the map.fitBounds call of the last event   (App.tsx:35)
    lastEvent            \* the event handled last, with its arguments

vars == <<selectedRoute, showAddRoute, isAnalyzing, routes, flightParams,
          certSettings, trajectorySettings, alerted, logged, fitBoundsCall,
          lastEvent>>

routeVars == <<selectedRoute, showAddRoute, isAnalyzing, routes>>
formVars  == <<flightParams, certSettings, trajectorySettings>>

----------------------------------------------------------------------------
(* Bounds and input sets *)

\* latitudes are 0..MaxLat
MaxLat == 1
\* the numbers typed into the "Controlled Area" field are 0..MaxInput
MaxInput == 1

Lngs == {0, 1}
Points == (0..MaxLat) \X Lngs
\* Route names handed over by the add-route dialog.
RouteNames == {"A", "B"}
\* The numbers typed into a flight or trajectory field.
FieldInputs == {0}
RelaxationInputs == 0..MaxInput
\* The classes of layer the drawing plugin can hand to onDrawComplete.
Layers == {"Polygon", "Rectangle", "Circle", "Marker"}

----------------------------------------------------------------------------
(* JavaScript values of the density lookup.  A value is a number, undefined *)
(* or an object inherited from Object.prototype.                            *)

Num(n) == [type |-> "number", num |-> n, ref |-> ""]
Undefined == [type |-> "undefined", num |-> 0, ref |-> ""]
Inherited(key) == [type |-> "object", num |-> 0, ref |-> key]

\* Property names every object literal inherits from Object.prototype.
ObjectPrototypeKeys == {"toString", "constructor"}

\* table[key] on an object literal: own property, else inherited, else undefined.
GetProperty(table, key) ==
    IF key \in DOMAIN table THEN Num(table[key])
    ELSE IF key \in ObjectPrototypeKeys THEN Inherited(key)
    ELSE Undefined

\* a || b
Truthy(v) == \/ v.type = "object"
             \/ (v.type = "number" /\ v.num # 0)
OrElse(a, b) == IF Truthy(a) THEN a ELSE b

withoutParachute ==
    [k \in {"SAIL 2", "SAIL 3", "SAIL 4", "SAIL 6"} |->
        CASE k = "SAIL 2" -> 0
          [] k = "SAIL 3" -> 5
          [] k = "SAIL 4" -> 50
          [] k = "SAIL 6" -> 5000]

withParachute ==
    [k \in {"SAIL 2", "SAIL 3", "SAIL 4"} |->
        CASE k = "SAIL 2" -> 5
          [] k = "SAIL 3" -> 50
          [] k = "SAIL 4" -> 500]

\* Mutant of density: the table without parachute whatever hasParachute is.
density_IgnoresParachute(sail, hasParachute) ==
    OrElse(GetProperty(withoutParachute, sail), Num(0))

\* const density = hasParachute ? withParachute[sail] || 0 : withoutParachute[sail] || 0
density(sail, hasParachute) ==
    IF hasParachute
    THEN OrElse(GetProperty(withParachute, sail), Num(0))
    ELSE OrElse(GetProperty(withoutParachute, sail), Num(0))

\* updateDensitySuppression as the updater it queues, applied to prev.
updateDensitySuppression(prev, sail, hasParachute) ==
    [prev EXCEPT !.densitySuppression = density(sail, hasParachute)]

----------------------------------------------------------------------------
(* The route store (hooks/useRoutes) *)

Route(name, source, destination) ==
    [name |-> name, source |-> source, destination |-> destination]

addRoute(rs, name, source, destination) ==
    [n \in (DOMAIN rs) \cup {name} |->
        IF n = name THEN Route(name, source, destination) ELSE rs[n]]

deleteRoute(rs, name) ==
    [n \in (DOMAIN rs) \ {name} |-> rs[n]]

NoRoutes == [n \in {} |-> Route("", <<0, 0>>, <<0, 0>>)]

----------------------------------------------------------------------------
(* The map view synchronizer *)

Min(a, b) == IF a <= b THEN a ELSE b
Max(a, b) == IF a >= b THEN a ELSE b

\* L.latLngBounds([p, q]): the bounds extended by p, then by q.
latLngBounds(p, q) ==
    [southWest |-> <<Min(p[1], q[1]), Min(p[2], q[2])>>,
     northEast |-> <<Max(p[1], q[1]), Max(p[2], q[2])>>]

MapPadding == <<50, 50>>

NoCall == [called |-> FALSE, bounds |-> latLngBounds(<<0, 0>>, <<0, 0>>),
           padding |-> <<0, 0>>]
FitBounds(bounds, padding) == [called |-> TRUE, bounds |-> bounds, padding |-> padding]

\* Mutant of MapUpdater: the bounds are built from the source alone.
MapUpdater_SourceOnly(sel, rs) ==
    IF sel # "" /\ sel \in DOMAIN rs
    THEN FitBounds(latLngBounds(rs[sel].source, rs[sel].source), MapPadding)
    ELSE NoCall

\* The body of MapUpdater's effect, run with the props of the new render.
MapUpdater(sel, rs) ==
    IF sel # "" /\ sel \in DOMAIN rs
    THEN FitBounds(latLngBounds(rs[sel].source, rs[sel].destination), MapPadding)
    ELSE NoCall

\* Mutant of AfterRender: the effect runs with the props of the previous render.
AfterRender_StaleProps(sel, rs, routesReplaced) ==
    IF sel # selectedRoute \/ routesReplaced
    THEN MapUpdater(selectedRoute, routes)
    ELSE NoCall

\* The effect runs after a render in which selectedRoute or routes changed.
\* routesReplaced: the event made the store hand out a new routes object.
AfterRender(sel, rs, routesReplaced) ==
    IF sel # selectedRoute \/ routesReplaced THEN MapUpdater(sel, rs) ELSE NoCall

----------------------------------------------------------------------------
(* Events.  name, source and destination are the arguments of onAddRoute,   *)
(* layer the argument of onDrawComplete; other events leave them blank.     *)

Event(type) ==
    [type |-> type, name |-> "", source |-> <<0, 0>>, destination |-> <<0, 0>>,
     layer |-> ""]
AddRouteEvent(name, source, destination) ==
    [type |-> "addRoute", name |-> name, source |-> source,
     destination |-> destination, layer |-> ""]
DrawEvent(layer) ==
    [type |-> "drawComplete", name |-> "", source |-> <<0, 0>>,
     destination |-> <<0, 0>>, layer |-> layer]

Init ==
    /\ selectedRoute = ""
    /\ showAddRoute = FALSE
    /\ isAnalyzing = FALSE
    /\ routes = NoRoutes
    /\ flightParams = [altitude |-> 2500, velocity |-> 55, geography |-> 125,
                       contingency |-> 300]
    /\ certSettings = [sail |-> "SAIL 2", hasParachute |-> FALSE,
                       densitySuppression |-> Num(0), relaxation |-> 750]
    /\ trajectorySettings = [distanceFwd |-> 200, distanceBack |-> 150,
                             minTurningRadius |-> 50, maxWaypointDistance |-> 500,
                             maxLateralDrift |-> 30]
    /\ alerted = FALSE
    /\ logged = FALSE
    /\ fitBoundsCall = NoCall
    /\ lastEvent = Event("mount")

\* An event that neither alerts, logs nor re-runs the MapUpdater effect.
Quiet ==
    /\ alerted' = FALSE
    /\ logged' = FALSE
    /\ fitBoundsCall' = NoCall

----------------------------------------------------------------------------
(* Route panel, analysis tools and drawing overlay *)

\* Mutant of SelectRoute: the dropdown offers every name, stored or not.
SelectRoute_AnyName(v) ==
    /\ lastEvent' = Event("selectRoute")
    /\ v \in {""} \cup RouteNames
    /\ v # selectedRoute
    /\ selectedRoute' = v
    /\ alerted' = FALSE
    /\ logged' = FALSE
    /\ fitBoundsCall' = AfterRender(v, routes, FALSE)
    /\ UNCHANGED <<showAddRoute, isAnalyzing, routes, formVars>>

\* <select value={selectedRoute} onChange={e => setSelectedRoute(e.target.value)}>
\* The options are "" and the names in the store; a change event is fired only
\* when the chosen option differs from the current one.
SelectRoute(v) ==
    /\ lastEvent' = Event("selectRoute")
    /\ v \in {""} \cup DOMAIN routes
    /\ v # selectedRoute
    /\ selectedRoute' = v
    /\ alerted' = FALSE
    /\ logged' = FALSE
    /\ fitBoundsCall' = AfterRender(v, routes, FALSE)
    /\ UNCHANGED <<showAddRoute, isAnalyzing, routes, formVars>>

\* onClick={() => setShowAddRoute(true)}
OpenAddRoute ==
    /\ lastEvent' = Event("openAddRoute")
    /\ showAddRoute' = TRUE
    /\ Quiet
    /\ UNCHANGED <<selectedRoute, isAnalyzing, routes, formVars>>

\* onClose={() => setShowAddRoute(false)}, offered by the open dialog.
CloseAddRoute ==
    /\ lastEvent' = Event("closeAddRoute")
    /\ showAddRoute
    /\ showAddRoute' = FALSE
    /\ Quiet
    /\ UNCHANGED <<selectedRoute, isAnalyzing, routes, formVars>>

\* Mutant of handleAddRoute: setShowAddRoute(false) is left out.
handleAddRoute_LeavesDialogOpen(name, source, destination) ==
    /\ lastEvent' = AddRouteEvent(name, source, destination)
    /\ showAddRoute
    /\ routes' = addRoute(routes, name, source, destination)
    /\ selectedRoute' = name
    /\ alerted' = FALSE
    /\ logged' = FALSE
    /\ fitBoundsCall' = AfterRender(name, routes', TRUE)
    /\ UNCHANGED <<showAddRoute, isAnalyzing, formVars>>

\* onAddRoute of the open dialog.
handleAddRoute(name, source, destination) ==
    /\ lastEvent' = AddRouteEvent(name, source, destination)
    /\ showAddRoute
    /\ routes' = addRoute(routes, name, source, destination)
    /\ showAddRoute' = FALSE
    /\ selectedRoute' = name
    /\ alerted' = FALSE
    /\ logged' = FALSE
    /\ fitBoundsCall' = AfterRender(name, routes', TRUE)
    /\ UNCHANGED <<isAnalyzing, formVars>>

\* Mutant of handleDeleteRoute: setSelectedRoute('') is left out.
handleDeleteRoute_KeepsSelection ==
    /\ lastEvent' = Event("deleteRoute")
    /\ IF selectedRoute # ""
       THEN /\ routes' = deleteRoute(routes, selectedRoute)
            /\ fitBoundsCall' = AfterRender(selectedRoute, routes', TRUE)
       ELSE /\ UNCHANGED routes
            /\ fitBoundsCall' = NoCall
    /\ alerted' = FALSE
    /\ logged' = FALSE
    /\ UNCHANGED <<selectedRoute, showAddRoute, isAnalyzing, formVars>>

\* The Delete button carries disabled={!selectedRoute}; the handler repeats the
\* test, and the action covers both of its branches.
handleDeleteRoute ==
    /\ lastEvent' = Event("deleteRoute")
    /\ IF selectedRoute # ""
       THEN /\ routes' = deleteRoute(routes, selectedRoute)
            /\ selectedRoute' = ""
            /\ fitBoundsCall' = AfterRender("", routes', TRUE)
       ELSE /\ UNCHANGED <<routes, selectedRoute>>
            /\ fitBoundsCall' = NoCall
    /\ alerted' = FALSE
    /\ logged' = FALSE
    /\ UNCHANGED <<showAddRoute, isAnalyzing, formVars>>

\* Mutant of handleAnalyzePopulation: the test of selectedRoute is left out.
handleAnalyzePopulation_NoGuard ==
    /\ lastEvent' = Event("analyzePopulation")
    /\ isAnalyzing' = TRUE
    /\ Quiet
    /\ UNCHANGED <<selectedRoute, showAddRoute, routes, formVars>>

\* The Analyze button carries disabled={!selectedRoute}; the handler repeats the
\* test, and the action covers both of its branches.
handleAnalyzePopulation ==
    /\ lastEvent' = Event("analyzePopulation")
    /\ IF selectedRoute = ""
       THEN /\ alerted' = TRUE
            /\ UNCHANGED isAnalyzing
       ELSE /\ alerted' = FALSE
            /\ isAnalyzing' = TRUE
    /\ logged' = FALSE
    /\ fitBoundsCall' = NoCall
    /\ UNCHANGED <<selectedRoute, showAddRoute, routes, formVars>>

\* L.Rectangle extends L.Polygon: both pass the instanceof test.
IsPolygonOrRectangle(layer) == layer \in {"Polygon", "Rectangle"}

\* Mutant of handleDrawComplete: setIsAnalyzing(false) is left out.
handleDrawComplete_KeepsAnalyzing(layer) ==
    /\ lastEvent' = DrawEvent(layer)
    /\ isAnalyzing
    /\ logged' = IsPolygonOrRectangle(layer)
    /\ alerted' = FALSE
    /\ fitBoundsCall' = NoCall
    /\ UNCHANGED <<selectedRoute, showAddRoute, isAnalyzing, routes, formVars>>

\* onDrawComplete of DrawingTools, which is mounted only while isAnalyzing.
handleDrawComplete(layer) ==
    /\ lastEvent' = DrawEvent(layer)
    /\ isAnalyzing
    /\ logged' = IsPolygonOrRectangle(layer)
    /\ isAnalyzing' = FALSE
    /\ alerted' = FALSE
    /\ fitBoundsCall' = NoCall
    /\ UNCHANGED <<selectedRoute, showAddRoute, routes, formVars>>

----------------------------------------------------------------------------
(* Certification, flight and trajectory panels *)

\* The options of the SAIL dropdown in the current render.
SailOptions ==
    {"SAIL 2", "SAIL 3", "SAIL 4"} \cup
        (IF ~certSettings.hasParachute THEN {"SAIL 6"} ELSE {})

\* onChange of the SAIL dropdown: two queued updaters, applied in order; the
\* second is computed from the hasParachute of the render the handler closes over.
SelectSail(newSail) ==
    /\ lastEvent' = Event("selectSail")
    /\ newSail \in SailOptions
    /\ newSail # certSettings.sail
    /\ certSettings' =
         updateDensitySuppression([certSettings EXCEPT !.sail = newSail],
                                  newSail, certSettings.hasParachute)
    /\ Quiet
    /\ UNCHANGED <<routeVars, flightParams, trajectorySettings>>

\* onChange of the parachute checkbox: e.target.checked is the flipped value.
ToggleParachute ==
    /\ lastEvent' = Event("toggleParachute")
    /\ LET hasParachute == ~certSettings.hasParachute
       IN  certSettings' =
             updateDensitySuppression([certSettings EXCEPT !.hasParachute = hasParachute],
                                      certSettings.sail, hasParachute)
    /\ Quiet
    /\ UNCHANGED <<routeVars, flightParams, trajectorySettings>>

\* setCertSettings({...certSettings, relaxation: Number(e.target.value)})
EditRelaxation(v) ==
    /\ lastEvent' = Event("editRelaxation")
    /\ certSettings' = [certSettings EXCEPT !.relaxation = v]
    /\ Quiet
    /\ UNCHANGED <<routeVars, flightParams, trajectorySettings>>

\* setFlightParams({...flightParams, [field]: Number(e.target.value)})
EditFlightParam(field, v) ==
    /\ lastEvent' = Event("editFlightParam")
    /\ flightParams' = [flightParams EXCEPT ![field] = v]
    /\ Quiet
    /\ UNCHANGED <<routeVars, certSettings, trajectorySettings>>

\* setTrajectorySettings({...trajectorySettings, [field]: Number(e.target.value)})
EditTrajectorySetting(field, v) ==
    /\ lastEvent' = Event("editTrajectorySetting")
    /\ trajectorySettings' = [trajectorySettings EXCEPT ![field] = v]
    /\ Quiet
    /\ UNCHANGED <<routeVars, flightParams, certSettings>>

----------------------------------------------------------------------------
(* Specifications *)

RouteEvents(names, points) ==
    \/ \E v \in {""} \cup RouteNames : SelectRoute(v)
    \/ OpenAddRoute
    \/ CloseAddRoute
    \/ \E n \in names, s \in points, d \in points : handleAddRoute(n, s, d)
    \/ handleDeleteRoute
    \/ handleAnalyzePopulation
    \/ \E layer \in Layers : handleDrawComplete(layer)

CertEvents ==
    \/ \E s \in DOMAIN withoutParachute : SelectSail(s)
    \/ ToggleParachute
    \/ \E v \in RelaxationInputs : EditRelaxation(v)

FormEvents(flightFields, trajectoryFields) ==
    \/ \E f \in flightFields, v \in FieldInputs : EditFlightParam(f, v)
    \/ \E f \in trajectoryFields, v \in FieldInputs : EditTrajectorySetting(f, v)

\* The whole component.
Next ==
    \/ RouteEvents(RouteNames, Points)
    \/ CertEvents
    \/ FormEvents(DOMAIN flightParams, DOMAIN trajectorySettings)
Spec == Init /\ [][Next]_vars

\* The route panel, the analysis tools and the map, the forms left alone.
NextRoutes == RouteEvents(RouteNames, Points)
SpecRoutes == Init /\ [][NextRoutes]_vars

\* The certification panel with every other handler beside it: the route
\* panel with one route name and one endpoint, and the first and last field of
\* the flight and trajectory panels.
NextCert ==
    \/ CertEvents
    \/ FormEvents({"altitude", "contingency"}, {"distanceFwd", "maxLateralDrift"})
    \/ RouteEvents({"A"}, {<<0, 0>>})
SpecCert == Init /\ [][NextCert]_vars

----------------------------------------------------------------------------
(* The density derivation on its own: updateDensitySuppression called with  *)
(* any category, next to the two handlers that call it.                     *)

\* Categories handed to the derivation: the four of the dropdown, categories
\* that are in no table, and a property name every object inherits.
Categories == {"SAIL 2", "SAIL 3", "SAIL 4", "SAIL 6", "SAIL 1", "SAIL 5", "", "toString"}

CallUpdateDensitySuppression(sail, hasParachute) ==
    /\ lastEvent' = Event("updateDensitySuppression")
    /\ certSettings' = updateDensitySuppression(certSettings, sail, hasParachute)
    /\ Quiet
    /\ UNCHANGED <<routeVars, flightParams, trajectorySettings>>

NextDensity ==
    \/ CertEvents
    \/ \E s \in Categories, p \in BOOLEAN : CallUpdateDensitySuppression(s, p)
SpecDensity == Init /\ [][NextDensity]_vars

----------------------------------------------------------------------------
(* Properties *)

\* The table of the specification: the value for a (category, parachute) pair,
\* 0 for a pair it does not list.
TableEntry(sail, hasParachute) ==
    CASE ~hasParachute /\ sail = "SAIL 2" -> 0
      [] ~hasParachute /\ sail = "SAIL 3" -> 5
      [] ~hasParachute /\ sail = "SAIL 4" -> 50
      [] ~hasParachute /\ sail = "SAIL 6" -> 5000
      [] hasParachute /\ sail = "SAIL 2" -> 5
      [] hasParachute /\ sail = "SAIL 3" -> 50
      [] hasParachute /\ sail = "SAIL 4" -> 500
      [] OTHER -> 0

\* C1: in no reachable state are sail = "SAIL 6" and hasParachute = true
\* together.
C1_NoSail6WithParachute ==
    ~(certSettings.sail = "SAIL 6" /\ certSettings.hasParachute)

DensityMatchesTable ==
    certSettings.densitySuppression =
        Num(TableEntry(certSettings.sail, certSettings.hasParachute))

\* C2: initially and after every event densitySuppression is the table entry
\* of the current (sail, hasParachute) pair, and an event that is neither a
\* sail change nor a parachute change leaves densitySuppression as it was.
C2_DensityDerived ==
    /\ DensityMatchesTable
    /\ [][/\ DensityMatchesTable'
          /\ (lastEvent'.type \notin {"selectSail", "toggleParachute"} =>
                certSettings'.densitySuppression = certSettings.densitySuppression)]_vars

\* C2 witness: both a sail change and a parachute change have been handled,
\* with a relaxation edit among them.
C2_Witness ==
    /\ certSettings.sail = "SAIL 4"
    /\ certSettings.hasParachute
    /\ certSettings.densitySuppression = Num(500)
    /\ certSettings.relaxation # 750

C4_DeleteClearsSelection ==
    [][lastEvent'.type = "deleteRoute" =>
          IF selectedRoute # ""
          THEN /\ DOMAIN routes' = (DOMAIN routes) \ {selectedRoute}
               /\ \A n \in DOMAIN routes' : routes'[n] = routes[n]
               /\ selectedRoute' = ""
          ELSE /\ routes' = routes
               /\ selectedRoute' = selectedRoute]_vars

\* C4 witness: the selected route was deleted with another route in the store.
C4_Witness ==
    /\ lastEvent.type = "deleteRoute"
    /\ DOMAIN routes = {"A"}
    /\ selectedRoute = ""

\* C5: handleAnalyzePopulation with no route selected leaves isAnalyzing as it
\* was and alerts; with a route selected it sets isAnalyzing and does not alert.
C5_AnalyzeNeedsRoute ==
    [][lastEvent'.type = "analyzePopulation" =>
          IF selectedRoute = ""
          THEN isAnalyzing' = isAnalyzing /\ alerted'
          ELSE isAnalyzing' /\ ~alerted']_vars

\* C5 witness: analysis was asked for with no route selected, the notice was
\* shown and the drawing tools stayed unmounted.
C5_Witness ==
    /\ lastEvent.type = "analyzePopulation"
    /\ alerted
    /\ ~isAnalyzing
    /\ selectedRoute = ""

\* C6: a draw-completion event for a rectangle or polygon layer, handled while
\* isAnalyzing, leaves isAnalyzing false and the selection and store unchanged.
C6_DrawCompleteClearsAnalyzing ==
    [][(/\ isAnalyzing
        /\ lastEvent'.type = "drawComplete"
        /\ lastEvent'.layer \in {"Polygon", "Rectangle"}) =>
          /\ ~isAnalyzing'
          /\ selectedRoute' = selectedRoute
          /\ routes' = routes]_vars

\* C6 witness: a rectangle was drawn for a selected route and the tools are gone.
C6_Witness ==
    /\ lastEvent.type = "drawComplete"
    /\ lastEvent.layer = "Rectangle"
    /\ ~isAnalyzing
    /\ selectedRoute \in DOMAIN routes

\* The coordinates of the points of the model.
Coords == (0..MaxLat) \cup Lngs

Contains(box, p) ==
    /\ box.southWest[1] <= p[1] /\ p[1] <= box.northEast[1]
    /\ box.southWest[2] <= p[2] /\ p[2] <= box.northEast[2]

\* box contains p and q, and every box that contains p and q contains box: on
\* each axis no lower bound of the two points lies above its south-west
\* corner and no upper bound below its north-east corner.
SmallestBoxAround(box, p, q) ==
    /\ Contains(box, p)
    /\ Contains(box, q)
    /\ \A i \in 1..2 : \A c \in Coords :
          /\ (c <= p[i] /\ c <= q[i]) => c <= box.southWest[i]
          /\ (c >= p[i] /\ c >= q[i]) => c >= box.northEast[i]

\* C7: every event that makes a stored route the selected one (handleAddRoute,
\* or the dropdown moving to a route) ends with a fitBounds call whose bounds
\* are the smallest box around the route's source and destination and whose
\* padding is [50, 50].
C7_FitBoundsOnSelection ==
    [][(\/ lastEvent'.type = "addRoute"
        \/ (lastEvent'.type = "selectRoute" /\ selectedRoute' # "")) =>
          /\ selectedRoute' \in DOMAIN routes'
          /\ fitBoundsCall'.called
          /\ fitBoundsCall'.padding = <<50, 50>>
          /\ SmallestBoxAround(fitBoundsCall'.bounds,
                               routes'[selectedRoute'].source,
                               routes'[selectedRoute'].destination)]_vars

\* C7 witness: the dropdown moved to a route, and the map was fitted to a box
\* of which neither endpoint of the route is a corner.
C7_Witness ==
    /\ lastEvent.type = "selectRoute"
    /\ selectedRoute \in DOMAIN routes
    /\ fitBoundsCall.called
    /\ routes[selectedRoute].source = <<1, 0>>
    /\ routes[selectedRoute].destination = <<0, 1>>
    /\ fitBoundsCall.bounds = [southWest |-> <<0, 0>>, northEast |-> <<1, 1>>]

\* C8: no event that ends with selectedRoute empty, or naming no route of the
\* store, makes a fitBounds call; the map is left as it was.
C8_NoFitWithoutRoute ==
    [][(selectedRoute' = "" \/ selectedRoute' \notin DOMAIN routes') =>
          ~fitBoundsCall'.called]_vars

\* C8 witness: the dropdown moved from a route to the empty option and no
\* call was made.
C8_Witness ==
    /\ lastEvent.type = "selectRoute"
    /\ selectedRoute = ""
    /\ DOMAIN routes = {"B"}
    /\ ~fitBoundsCall.called

\* C9: handleAddRoute(name, source, destination) leaves the entry for name
\* equal to (source, destination), every other entry as it was, selectedRoute
\* = name and the dialog closed.
C9_AddRouteStoresAndSelects ==
    [][lastEvent'.type = "addRoute" =>
          /\ DOMAIN routes' = (DOMAIN routes) \cup {lastEvent'.name}
          /\ routes'[lastEvent'.name].source = lastEvent'.source
          /\ routes'[lastEvent'.name].destination = lastEvent'.destination
          /\ \A m \in (DOMAIN routes) \ {lastEvent'.name} : routes'[m] = routes[m]
          /\ selectedRoute' = lastEvent'.name
          /\ ~showAddRoute']_vars

\* C9 witness: a route was added beside another one and is selected.
C9_Witness ==
    /\ lastEvent = AddRouteEvent("B", <<1, 1>>, <<0, 1>>)
    /\ DOMAIN routes = {"A", "B"}
    /\ selectedRoute = "B"
    /\ ~showAddRoute
    /\ routes["B"].source = <<1, 1>> /\ routes["B"].destination = <<0, 1>>

\* C10: whenever isAnalyzing is true, a route is selected.
C10_AnalyzingImpliesSelection ==
    isAnalyzing => selectedRoute # ""

\* C11: in every reachable state selectedRoute is "" or the name of a route
\* that is in the store.
C11_SelectionResolves ==
    selectedRoute = "" \/ selectedRoute \in DOMAIN routes

\* C11 witness: route A was added, selected and deleted again, and the
\* dropdown then moved to route B, the only route left.
C11_Witness ==
    /\ lastEvent.type = "selectRoute"
    /\ selectedRoute = "B"
    /\ DOMAIN routes = {"B"}

====
